---- MODULE Spec2Model ----
(***************************************************************************)
(* The Wwise-generated identifier table Wwise_IDs.h: namespace AK holds    *)
(* five namespaces of `static const AkUniqueID NAME = <decimal>U;`         *)
(* declarations.  The only thing a program can do with the table is read a *)
(* constant by its qualified name; the model has threads doing that.       *)
(*                                                                         *)
(* TLC's integers are 32-bit signed, so an unsigned 32-bit value is kept   *)
(* as two 16-bit halves [hi, lo], and a decimal literal as its digits.     *)
(***************************************************************************)
EXTENDS Integers, Sequences, FiniteSets, TLC

\* Number of threads that read the table concurrently.
NumThreads == 2

Threads == 1..NumThreads

(***************************************************************************)
(* The declarations, in source order.  lit is the decimal literal as       *)
(* written, without its U suffix.                                          *)
(***************************************************************************)
\* EVENTS with PLAY_MUS_4_4_100BPM_THEME_NL exported as a 64-bit ID
\* (513704729 + 2^32).
EVENTS_Wide ==
    << [name |-> "PLAY_AMB_ROOM2_LP",
        lit |-> <<2, 2, 9, 1, 2, 9, 8, 6, 8, 9>>],
       [name |-> "PLAY_MUS_4_4_100BPM_THEME_NL",
        lit |-> <<4, 8, 0, 8, 6, 7, 2, 0, 2, 5>>],
       [name |-> "PLAY_SFX_BUNNYROLL_NL",
        lit |-> <<4, 2, 1, 2, 6, 6, 9, 2, 9, 2>>] >>

\* EVENTS with PLAY_AMB_ROOM_LP exported twice.
EVENTS_Dup ==
    << [name |-> "PLAY_AMB_ROOM_LP",
        lit |-> <<3, 1, 1, 2, 6, 8, 4, 8, 0, 7>>],
       [name |-> "PLAY_AMB_ROOM_LP",
        lit |-> <<2, 2, 9, 1, 2, 9, 8, 6, 8, 9>>],
       [name |-> "PLAY_SFX_BUNNYROLL_NL",
        lit |-> <<4, 2, 1, 2, 6, 6, 9, 2, 9, 2>>] >>

\* namespace EVENTS
EVENTS ==
    << [name |-> "PLAY_AMB_ROOM2_LP",
        lit |-> <<2, 2, 9, 1, 2, 9, 8, 6, 8, 9>>],
       [name |-> "PLAY_AMB_ROOM_LP",
        lit |-> <<3, 1, 1, 2, 6, 8, 4, 8, 0, 7>>],
       [name |-> "PLAY_MUS_4_4_100BPM_THEME_NL",
        lit |-> <<5, 1, 3, 7, 0, 4, 7, 2, 9>>],
       [name |-> "PLAY_SFX_BUNNYABSORB_NL",
        lit |-> <<1, 5, 6, 7, 9, 3, 3, 0, 5, 8>>],
       [name |-> "PLAY_SFX_BUNNYIMPACT_NL",
        lit |-> <<4, 0, 3, 8, 9, 2, 5, 6, 8, 5>>],
       [name |-> "PLAY_SFX_BUNNYMOVE_NL",
        lit |-> <<1, 4, 0, 0, 4, 8, 5, 2, 7, 8>>],
       [name |-> "PLAY_SFX_BUNNYROLL_NL",
        lit |-> <<4, 2, 1, 2, 6, 6, 9, 2, 9, 2>>],
       [name |-> "PLAY_SFX_WOODBLOCK_IMPACT_WOOD",
        lit |-> <<8, 4, 1, 6, 9, 5, 1, 5, 5>>] >>

\* GAME_PARAMETERS left over from an export in which VELOCITY had another ID.
GAME_PARAMETERS_Stale ==
    << [name |-> "VELOCITY",
        lit |-> <<3, 5, 1, 9, 4, 4, 1, 1, 2, 9>>] >>

\* namespace GAME_PARAMETERS
GAME_PARAMETERS ==
    << [name |-> "VELOCITY",
        lit |-> <<3, 5, 1, 9, 4, 4, 1, 1, 9, 2>>] >>

\* namespace BUSSES
BUSSES ==
    << [name |-> "MAIN_AUDIO_BUS",
        lit |-> <<2, 2, 4, 6, 9, 9, 8, 5, 2, 6>>] >>

\* AUX_BUSSES exported with no entry.
AUX_BUSSES_Empty == << >>

\* namespace AUX_BUSSES
AUX_BUSSES ==
    << [name |-> "ROOM",
        lit |-> <<2, 0, 7, 7, 2, 5, 3, 4, 8, 0>>] >>

\* AUDIO_DEVICES with the two values exchanged.
AUDIO_DEVICES_Swapped ==
    << [name |-> "NO_OUTPUT",
        lit |-> <<3, 8, 5, 9, 8, 8, 6, 4, 1, 0>>],
       [name |-> "SYSTEM",
        lit |-> <<2, 3, 1, 7, 4, 5, 5, 0, 9, 6>>] >>

\* AUDIO_DEVICES with SYSTEM given the value of NO_OUTPUT.
AUDIO_DEVICES_Same ==
    << [name |-> "NO_OUTPUT",
        lit |-> <<2, 3, 1, 7, 4, 5, 5, 0, 9, 6>>],
       [name |-> "SYSTEM",
        lit |-> <<2, 3, 1, 7, 4, 5, 5, 0, 9, 6>>] >>

\* namespace AUDIO_DEVICES
AUDIO_DEVICES ==
    << [name |-> "NO_OUTPUT",
        lit |-> <<2, 3, 1, 7, 4, 5, 5, 0, 9, 6>>],
       [name |-> "SYSTEM",
        lit |-> <<3, 8, 5, 9, 8, 8, 6, 4, 1, 0>>] >>

Categories ==
    {"EVENTS", "GAME_PARAMETERS", "BUSSES", "AUX_BUSSES", "AUDIO_DEVICES"}

Declared(c) ==
    CASE c = "EVENTS" -> EVENTS
      [] c = "GAME_PARAMETERS" -> GAME_PARAMETERS
      [] c = "BUSSES" -> BUSSES
      [] c = "AUX_BUSSES" -> AUX_BUSSES
      [] c = "AUDIO_DEVICES" -> AUDIO_DEVICES

(***************************************************************************)
(* Unsigned arithmetic.  Half is 2^16; a Word is an unsigned 32-bit value  *)
(* hi * 2^16 + lo.                                                         *)
(***************************************************************************)
Half == 2 ^ 16

Word == [hi : 0 .. Half - 1, lo : 0 .. Half - 1]

\* The value of a decimal literal with suffix U: the literal has the first
\* unsigned type that holds it, so its value is exact.  top counts the
\* multiples of 2^32.
RECURSIVE Dec(_)
Dec(lit) ==
    IF lit = << >> THEN [top |-> 0, hi |-> 0, lo |-> 0]
    ELSE LET p  == Dec(SubSeq(lit, 1, Len(lit) - 1))
             l  == p.lo * 10 + lit[Len(lit)]
             h  == p.hi * 10 + (l \div Half)
         IN  [top |-> p.top * 10 + (h \div Half), hi |-> h % Half, lo |-> l % Half]

\* Initialising an AkUniqueID (unsigned 32-bit) from an unsigned value: the
\* value modulo 2^32.
ToAkUniqueID(v) == [hi |-> v.hi, lo |-> v.lo]

\* The objects the declarations define: per namespace, name and value.
Table ==
    [c \in Categories |->
        [i \in 1 .. Len(Declared(c)) |->
            [name  |-> Declared(c)[i].name,
             value |-> ToAkUniqueID(Dec(Declared(c)[i].lit))]]]

Names(tab, c) == {tab[c][i].name : i \in DOMAIN tab[c]}

\* The value the qualified name AK::c::n denotes.
Lookup(tab, c, n) ==
    LET i == CHOOSE j \in DOMAIN tab[c] : tab[c][j].name = n
    IN  tab[c][i].value

(***************************************************************************)
(* State: AK is the table in memory; last[t] is what thread t read last.   *)
(***************************************************************************)
VARIABLES AK, last

vars == <<AK, last>>

None == [cat |-> "", name |-> "", value |-> [hi |-> 0, lo |-> 0]]

Init ==
    /\ AK = Table
    /\ last = [t \in Threads |-> None]

\* A read that clears the object it read, as a table of non-const objects
\* would allow.
ReadClearing(t, c, n) ==
    /\ n \in Names(AK, c)
    /\ last' = [last EXCEPT ![t] = [cat |-> c, name |-> n, value |-> Lookup(AK, c, n)]]
    /\ AK' = [AK EXCEPT ![c] =
                [i \in DOMAIN AK[c] |->
                    IF AK[c][i].name = n
                    THEN [AK[c][i] EXCEPT !.value = [hi |-> 0, lo |-> 0]]
                    ELSE AK[c][i]]]

\* A read that is torn: only the low half of the value arrives.
ReadTorn(t, c, n) ==
    /\ n \in Names(AK, c)
    /\ last' = [last EXCEPT ![t] =
                  [cat |-> c, name |-> n,
                   value |-> [hi |-> 0, lo |-> Lookup(AK, c, n).lo]]]
    /\ UNCHANGED AK

\* A read that validates the ID as a signed 32-bit number and refuses the
\* others.
ReadValidated(t, c, n) ==
    /\ n \in Names(AK, c)
    /\ Lookup(AK, c, n).hi < Half \div 2
    /\ last' = [last EXCEPT ![t] = [cat |-> c, name |-> n, value |-> Lookup(AK, c, n)]]
    /\ UNCHANGED AK

\* Thread t evaluates AK::c::n.
Read(t, c, n) ==
    /\ n \in Names(AK, c)
    /\ last' = [last EXCEPT ![t] = [cat |-> c, name |-> n, value |-> Lookup(AK, c, n)]]
    /\ UNCHANGED AK

Next == \E t \in Threads, c \in Categories : \E n \in Names(AK, c) : Read(t, c, n)

Spec == Init /\ [][Next]_vars

(***************************************************************************)
(* The names as character sequences, and their ASCII codes.                *)
(***************************************************************************)
Spelling(n) ==
    CASE n = "PLAY_AMB_ROOM2_LP" ->
           <<"P", "L", "A", "Y", "_", "A", "M", "B", "_", "R", "O", "O", "M", "2", "_", "L", "P">>
      [] n = "PLAY_AMB_ROOM_LP" ->
           <<"P", "L", "A", "Y", "_", "A", "M", "B", "_", "R", "O", "O", "M", "_", "L", "P">>
      [] n = "PLAY_MUS_4_4_100BPM_THEME_NL" ->
           <<"P", "L", "A", "Y", "_", "M", "U", "S", "_", "4", "_", "4", "_", "1", "0", "0", "B", "P", "M", "_", "T", "H", "E", "M", "E", "_", "N", "L">>
      [] n = "PLAY_SFX_BUNNYABSORB_NL" ->
           <<"P", "L", "A", "Y", "_", "S", "F", "X", "_", "B", "U", "N", "N", "Y", "A", "B", "S", "O", "R", "B", "_", "N", "L">>
      [] n = "PLAY_SFX_BUNNYIMPACT_NL" ->
           <<"P", "L", "A", "Y", "_", "S", "F", "X", "_", "B", "U", "N", "N", "Y", "I", "M", "P", "A", "C", "T", "_", "N", "L">>
      [] n = "PLAY_SFX_BUNNYMOVE_NL" ->
           <<"P", "L", "A", "Y", "_", "S", "F", "X", "_", "B", "U", "N", "N", "Y", "M", "O", "V", "E", "_", "N", "L">>
      [] n = "PLAY_SFX_BUNNYROLL_NL" ->
           <<"P", "L", "A", "Y", "_", "S", "F", "X", "_", "B", "U", "N", "N", "Y", "R", "O", "L", "L", "_", "N", "L">>
      [] n = "PLAY_SFX_WOODBLOCK_IMPACT_WOOD" ->
           <<"P", "L", "A", "Y", "_", "S", "F", "X", "_", "W", "O", "O", "D", "B", "L", "O", "C", "K", "_", "I", "M", "P", "A", "C", "T", "_", "W", "O", "O", "D">>
      [] n = "VELOCITY" ->
           <<"V", "E", "L", "O", "C", "I", "T", "Y">>
      [] n = "MAIN_AUDIO_BUS" ->
           <<"M", "A", "I", "N", "_", "A", "U", "D", "I", "O", "_", "B", "U", "S">>
      [] n = "ROOM" ->
           <<"R", "O", "O", "M">>
      [] n = "NO_OUTPUT" ->
           <<"N", "O", "_", "O", "U", "T", "P", "U", "T">>
      [] n = "SYSTEM" ->
           <<"S", "Y", "S", "T", "E", "M">>

Upper ==
    <<"A", "B", "C", "D", "E", "F", "G", "H", "I", "J", "K", "L", "M",
      "N", "O", "P", "Q", "R", "S", "T", "U", "V", "W", "X", "Y", "Z">>

Digit == <<"0", "1", "2", "3", "4", "5", "6", "7", "8", "9">>

Ascii(ch) ==
    IF \E i \in DOMAIN Upper : Upper[i] = ch
    THEN 64 + (CHOOSE i \in DOMAIN Upper : Upper[i] = ch)
    ELSE IF \E i \in DOMAIN Digit : Digit[i] = ch
    THEN 47 + (CHOOSE i \in DOMAIN Digit : Digit[i] = ch)
    ELSE IF ch = "_" THEN 95
    ELSE 32

Bytes(n) == [i \in DOMAIN Spelling(n) |-> Ascii(Spelling(n)[i])]

(***************************************************************************)
(* The hash C9 names: 32-bit FNV-1 over the lower-cased name.              *)
(***************************************************************************)
ToLower(b) == IF b \in 65 .. 90 THEN b + 32 ELSE b

UnderscoreToSpace(b) == IF b = 95 THEN 32 ELSE b

RECURSIVE XorBits(_, _, _)
XorBits(a, b, n) ==
    IF n = 0 THEN 0
    ELSE (((a % 2) + (b % 2)) % 2) + 2 * XorBits(a \div 2, b \div 2, n - 1)

\* h * 16777619 modulo 2^32
MulPrime(h) ==
    LET pl == 16777619 % Half
        ph == 16777619 \div Half
        l  == h.lo * pl
    IN  [hi |-> (h.hi * pl + h.lo * ph + (l \div Half)) % Half, lo |-> l % Half]

FNVStep(h, b) ==
    LET m == MulPrime(h)
    IN  [hi |-> m.hi, lo |-> ((m.lo \div 256) * 256) + XorBits(m.lo % 256, b, 8)]

\* The hash of bs[k .. Len(bs)] continued from h.  The test on h2 makes TLC
\* compute each step before the next one.
RECURSIVE FNV1From(_, _, _)
FNV1From(h, bs, k) ==
    IF k > Len(bs) THEN h
    ELSE LET h2 == FNVStep(h, bs[k])
         IN  IF h2.hi >= 0 THEN FNV1From(h2, bs, k + 1) ELSE h2

FNV1(bs) == FNV1From(ToAkUniqueID(Dec(<<2, 1, 6, 6, 1, 3, 6, 2, 6, 1>>)), bs, 1)

HashLower(n) == FNV1([i \in DOMAIN Bytes(n) |-> ToLower(Bytes(n)[i])])

HashLowerSpaced(n) ==
    FNV1([i \in DOMAIN Bytes(n) |-> ToLower(UnderscoreToSpace(Bytes(n)[i]))])

(***************************************************************************)
(* Properties.                                                             *)
(***************************************************************************)
HasRead(t) == last[t] # None

\* The entries of a table as (category, index) pairs.
Entries(tab) == UNION {{<<c, i>> : i \in DOMAIN tab[c]} : c \in Categories}

\* The values the documentation gives, as written there.
Documented ==
    { [cat |-> "EVENTS", name |-> "PLAY_SFX_BUNNYROLL_NL",
       lit |-> <<4, 2, 1, 2, 6, 6, 9, 2, 9, 2>>],
      [cat |-> "GAME_PARAMETERS", name |-> "VELOCITY",
       lit |-> <<3, 5, 1, 9, 4, 4, 1, 1, 9, 2>>],
      [cat |-> "BUSSES", name |-> "MAIN_AUDIO_BUS",
       lit |-> <<2, 2, 4, 6, 9, 9, 8, 5, 2, 6>>],
      [cat |-> "AUX_BUSSES", name |-> "ROOM",
       lit |-> <<2, 0, 7, 7, 2, 5, 3, 4, 8, 0>>],
      [cat |-> "AUDIO_DEVICES", name |-> "NO_OUTPUT",
       lit |-> <<2, 3, 1, 7, 4, 5, 5, 0, 9, 6>>] }

\* C1: the five documented names are defined and denote exactly the
\* documented values, in the table and in every read of them.
C1_DocumentedValues ==
    \A d \in Documented :
        /\ Dec(d.lit).top = 0
        /\ d.name \in Names(AK, d.cat)
        /\ Lookup(AK, d.cat, d.name) = ToAkUniqueID(Dec(d.lit))
        /\ \A t \in Threads :
              (last[t].cat = d.cat /\ last[t].name = d.name)
                  => last[t].value = ToAkUniqueID(Dec(d.lit))

C1_Witness ==
    \E t \in Threads :
        /\ last[t].cat = "EVENTS"
        /\ last[t].name = "PLAY_SFX_BUNNYROLL_NL"
        /\ last[t].value = [hi |-> 64280, lo |-> 15212]

\* C2: in every reachable state the table in memory has the categories,
\* names and values it had initially.
C2_TableNeverChanges ==
    \A c \in Categories :
        /\ Names(AK, c) = Names(Table, c)
        /\ \A n \in Names(Table, c) : Lookup(AK, c, n) = Lookup(Table, c, n)

C2_Witness ==
    /\ \A t \in Threads : HasRead(t)
    /\ \E t1, t2 \in Threads : last[t1].name # last[t2].name

\* C3: every value of the table is an unsigned 32-bit integer: each literal
\* lies in 0 .. 2^32 - 1, and the object holds exactly that value.
C3_ValuesAre32Bit ==
    \A e \in Entries(AK) :
        LET c == e[1]
            i == e[2]
        IN  /\ AK[c][i].value \in Word
            /\ i \in DOMAIN Declared(c)
            /\ Dec(Declared(c)[i].lit).top = 0
            /\ AK[c][i].value.hi = Dec(Declared(c)[i].lit).hi
            /\ AK[c][i].value.lo = Dec(Declared(c)[i].lit).lo

\* A read of a value above 2^31 - 1, which needs the whole unsigned range.
C3_Witness ==
    \E t \in Threads : HasRead(t) /\ last[t].value.hi >= Half \div 2

\* C4: within one category no two entries have the same name.
C4_NamesDistinctInCategory ==
    \A c \in Categories :
        \A i, j \in DOMAIN AK[c] : AK[c][i].name = AK[c][j].name => i = j

C4_Witness ==
    \E t1, t2 \in Threads :
        /\ HasRead(t1) /\ HasRead(t2)
        /\ last[t1].cat = last[t2].cat
        /\ last[t1].name # last[t2].name
        /\ last[t1].value # last[t2].value

\* C5: every one of the five categories holds at least one entry.
C5_NoCategoryEmpty ==
    /\ DOMAIN AK = Categories
    /\ Cardinality(Categories) = 5
    /\ \A c \in Categories : Len(AK[c]) >= 1 /\ Names(AK, c) # {}

C5_Witness ==
    /\ \E t \in Threads : last[t].cat = "GAME_PARAMETERS"
    /\ \E t \in Threads : last[t].cat = "EVENTS"

\* C6: whatever the interleaving, a completed read holds the initial value
\* of the name it read, and no step writes the table.
C6_ReadsSeeInitialValues ==
    /\ [](\A t \in Threads :
            HasRead(t) =>
                \E i \in DOMAIN Table[last[t].cat] :
                    /\ Table[last[t].cat][i].name = last[t].name
                    /\ Table[last[t].cat][i].value = last[t].value)
    /\ [][AK' = AK]_vars

\* Two threads have read the same name and hold the same value.
C6_Witness ==
    \E t1, t2 \in Threads :
        /\ t1 # t2
        /\ HasRead(t1)
        /\ last[t1].cat = "AUDIO_DEVICES"
        /\ last[t1] = last[t2]

\* C8: a read of a defined name can always be taken, by any thread in any
\* state, whatever the ID is, and what a read leaves is a value, never an
\* error.
C8_ReadsNeverFail ==
    /\ \A t \in Threads : \A c \in Categories : \A n \in Names(Table, c) :
            ENABLED Read(t, c, n)
    /\ \A t \in Threads :
            HasRead(t) => (last[t].value \in Word /\ last[t].name \in Names(Table, last[t].cat))

C8_Witness ==
    /\ \E t \in Threads : last[t].cat = "BUSSES" /\ last[t].value.hi >= Half \div 2
    /\ \E t \in Threads : last[t].cat = "AUX_BUSSES" /\ last[t].value.hi < Half \div 2

\* C9 as stated: every value is the FNV-1 hash of the lower-cased name.
C9_HashOfLowerName ==
    \A e \in Entries(AK) :
        AK[e[1]][e[2]].value = HashLower(AK[e[1]][e[2]].name)

\* C9 amended: every value but that of BUSSES.MAIN_AUDIO_BUS is the FNV-1
\* hash of the lower-cased name; MAIN_AUDIO_BUS is the hash of the
\* lower-cased name with spaces for its underscores, "main audio bus".
C9_HashOfLowerNameButMainBus ==
    \A e \in Entries(AK) :
        LET x == AK[e[1]][e[2]]
        IN  IF e[1] = "BUSSES" /\ x.name = "MAIN_AUDIO_BUS"
            THEN x.value = HashLowerSpaced(x.name) /\ x.value # HashLower(x.name)
            ELSE x.value = HashLower(x.name)

C9_Witness ==
    /\ \E t \in Threads :
          last[t].name = "ROOM" /\ last[t].value = HashLower("ROOM")
    /\ \E t \in Threads :
          last[t].name = "MAIN_AUDIO_BUS"
              /\ last[t].value = HashLowerSpaced("MAIN_AUDIO_BUS")

\* C10: no two entries of the whole table have the same value, so a value
\* names one (category, name) entry.
C10_ValuesDistinct ==
    /\ Cardinality(Entries(AK)) = 13
    /\ \A e1, e2 \in Entries(AK) :
          AK[e1[1]][e1[2]].value = AK[e2[1]][e2[2]].value => e1 = e2

C10_Witness ==
    \E t1, t2 \in Threads :
        /\ last[t1].cat = "AUDIO_DEVICES"
        /\ last[t2].cat = "EVENTS"
        /\ last[t1].value # last[t2].value

====
